---- MODULE Spec2Model ----
(***************************************************************************)
(* ClarityTasks (src/ClarityTasks.py): the Task record and its derived     *)
(* status, the JSON backing file, and the TodoApp controller with its      *)
(* filtered row -> store-position projection.                              *)
(*                                                                         *)
(* Text is modelled as sequences of one-character strings, so that strip,  *)
(* lower, capitalize, substring search and strptime are computed as the    *)
(* code computes them.  Python's None is the value None below.  The modal  *)
(* dialogs of edit_selected and delete_selected return before the handler  *)
(* goes on, so each handler is one atomic action whose dialog answers are  *)
(* inputs.                                                                 *)
(***************************************************************************)
EXTENDS Integers, Sequences, FiniteSets, TLC

VARIABLES
    tasks,             \* TodoApp.tasks: the store, a sequence of Task records
    filtered_indices,  \* TodoApp.filtered_indices: view row -> store position (0-based)
    tree,              \* the Treeview's rows (title, priority, due, status), iid = row index
    sel,               \* tree.selection(): <<>> or <<view_row>>
    filter_var,        \* TodoApp.filter_var
    search_var,        \* TodoApp.search_var
    file,              \* content of DATA_FILE
    now,               \* the wall clock, in days since the day before the program started
    viewDate,          \* the clock value read by the last refresh_view
    last               \* the handler that ran last and how it ended

vars == <<tasks, filtered_indices, tree, sel, filter_var, search_var, file, now,
          viewDate, last>>

-----------------------------------------------------------------------------
(* Bounds *)

MaxTasks == 2
MaxTime == 2

-----------------------------------------------------------------------------
(* Text *)

None == <<"None">>

SP == " "

Digits == {"0", "1", "2", "3", "4", "5", "6", "7", "8", "9"}

DigitVal(c) ==
    CASE c = "0" -> 0 [] c = "1" -> 1 [] c = "2" -> 2 [] c = "3" -> 3
      [] c = "4" -> 4 [] c = "5" -> 5 [] c = "6" -> 6 [] c = "7" -> 7
      [] c = "8" -> 8 [] c = "9" -> 9

LowerChar(c) ==
    CASE c = "A" -> "a" [] c = "B" -> "b" [] c = "H" -> "h" [] c = "L" -> "l"
      [] c = "M" -> "m" [] c = "T" -> "t" [] OTHER -> c

UpperChar(c) ==
    CASE c = "a" -> "A" [] c = "b" -> "B" [] c = "h" -> "H" [] c = "l" -> "L"
      [] c = "m" -> "M" [] c = "t" -> "T" [] OTHER -> c

\* str.lower()
Lower(s) == [i \in 1..Len(s) |-> LowerChar(s[i])]

\* str.capitalize(): first character upper-cased, the rest lower-cased
Capitalize(s) ==
    [i \in 1..Len(s) |-> IF i = 1 THEN UpperChar(s[i]) ELSE LowerChar(s[i])]

RECURSIVE LStrip(_)
LStrip(s) == IF s # <<>> /\ Head(s) = SP THEN LStrip(Tail(s)) ELSE s

RECURSIVE RStrip(_)
RStrip(s) ==
    IF s # <<>> /\ s[Len(s)] = SP THEN RStrip(SubSeq(s, 1, Len(s) - 1)) ELSE s

\* str.strip()
Strip(s) == RStrip(LStrip(s))

\* q in hay
Contains(q, hay) ==
    \E i \in 0..(Len(hay) - Len(q)) : SubSeq(hay, i + 1, i + Len(q)) = q

\* A text value is falsy when it is None or the empty string
Truthy(s) == s # None /\ s # <<>>

Low == <<"L", "o", "w">>
Medium == <<"M", "e", "d", "i", "u", "m">>
High == <<"H", "i", "g", "h">>

\* the priorities the program accepts (line 259) and offers (line 121)
Priorities == {Low, Medium, High}

-----------------------------------------------------------------------------
(* Dates: strptime(s, "%Y-%m-%d").date() and date.today() *)

Invalid == <<>>

IsLeap(y) == (y % 4 = 0 /\ y % 100 # 0) \/ y % 400 = 0

DaysInMonth(y, m) ==
    IF m = 2 THEN (IF IsLeap(y) THEN 29 ELSE 28)
    ELSE IF m \in {4, 6, 9, 11} THEN 30 ELSE 31

\* %m: 1[0-2] | 0[1-9] | [1-9]; 0 when the token is none of them
MonthTok(t) ==
    IF Len(t) = 2 /\ t[1] = "1" /\ t[2] \in {"0", "1", "2"} THEN 10 + DigitVal(t[2])
    ELSE IF Len(t) = 2 /\ t[1] = "0" /\ t[2] \in Digits \ {"0"} THEN DigitVal(t[2])
    ELSE IF Len(t) = 1 /\ t[1] \in Digits \ {"0"} THEN DigitVal(t[1])
    ELSE 0

\* %d: 3[0-1] | [1-2]\d | 0[1-9] | [1-9] | " "[1-9]; 0 when the token is none of them
DayTok(t) ==
    IF Len(t) = 2 /\ t[1] = "3" /\ t[2] \in {"0", "1"} THEN 30 + DigitVal(t[2])
    ELSE IF Len(t) = 2 /\ t[1] \in {"1", "2"} /\ t[2] \in Digits
        THEN 10 * DigitVal(t[1]) + DigitVal(t[2])
    ELSE IF Len(t) = 2 /\ t[1] \in {"0", SP} /\ t[2] \in Digits \ {"0"} THEN DigitVal(t[2])
    ELSE IF Len(t) = 1 /\ t[1] \in Digits \ {"0"} THEN DigitVal(t[1])
    ELSE 0

\* %Y: exactly four digits, then "-"; -1 when the text does not start so
YearTok(s) ==
    IF Len(s) >= 5 /\ (\A i \in 1..4 : s[i] \in Digits) /\ s[5] = "-"
    THEN 1000 * DigitVal(s[1]) + 100 * DigitVal(s[2]) + 10 * DigitVal(s[3]) + DigitVal(s[4])
    ELSE -1

\* The date <<y, m, d>> a text parses to, or Invalid where strptime or
\* the datetime constructor raises ValueError.
ParseDate(s) ==
    LET y == YearTok(s)
        r == SubSeq(s, 6, Len(s))
        cut == IF Len(r) >= 2 /\ r[2] = "-" THEN 2
               ELSE IF Len(r) >= 3 /\ r[3] = "-" THEN 3 ELSE 0
        m == IF cut = 0 THEN 0 ELSE MonthTok(SubSeq(r, 1, cut - 1))
        d == IF cut = 0 THEN 0 ELSE DayTok(SubSeq(r, cut + 1, Len(r)))
    IN  IF y >= 1 /\ m # 0 /\ d # 0 /\ d <= DaysInMonth(y, m)
        THEN <<y, m, d>> ELSE Invalid

\* a comparison that also holds for the day itself
DateNotAfter(a, b) ==
    \/ a[1] < b[1]
    \/ a[1] = b[1] /\ a[2] < b[2]
    \/ a[1] = b[1] /\ a[2] = b[2] /\ a[3] <= b[3]

\* d < datetime.date.today()
DateLess(a, b) ==
    \/ a[1] < b[1]
    \/ a[1] = b[1] /\ a[2] < b[2]
    \/ a[1] = b[1] /\ a[2] = b[2] /\ a[3] < b[3]

\* date.today() when the clock reads t: day 1 is 2025-09-04
TodayDate(t) == <<2025, 9, 3 + t>>

\* TodoApp._valid_date
ValidDate(s) == ParseDate(s) # Invalid

-----------------------------------------------------------------------------
(* Task *)

\* the clock value at which the program starts (the module is imported)
StartTime == 1

\* Task.created's default: evaluated once, when the class is defined
DefaultCreated == StartTime

\* Task(title, done, priority, due, created)
Task(title, done, priority, due, created) ==
    [title |-> title, done |-> done, priority |-> priority, due |-> due,
     created |-> created]

\* an overdue test that forgets the done flag
IsOverdueIgnoringDone(t, today) ==
    IF ~Truthy(t.due) THEN FALSE
    ELSE LET d == ParseDate(t.due)
         IN  IF d = Invalid THEN FALSE ELSE DateLess(d, today)

\* Task.is_overdue, on the day `today`
IsOverdue(t, today) ==
    IF t.done \/ ~Truthy(t.due) THEN FALSE
    ELSE LET d == ParseDate(t.due)
         IN  IF d = Invalid THEN FALSE ELSE DateLess(d, today)

\* Task.is_due_today, on the day `today`
IsDueToday(t, today) ==
    IF t.done \/ ~Truthy(t.due) THEN FALSE
    ELSE LET d == ParseDate(t.due)
         IN  IF d = Invalid THEN FALSE ELSE d = today

-----------------------------------------------------------------------------
(* Storage.  A JSON object is a record of optional fields: <<>> when the   *)
(* key is missing, <<v>> when it is present.  The file is absent, holds    *)
(* text json.load cannot turn into a list of objects, or holds a list.     *)

NoFile == [kind |-> "absent", items |-> <<>>]
Corrupt == [kind |-> "corrupt", items |-> <<>>]
JsonFile(items) == [kind |-> "json", items |-> items]

\* dict.get(key, default)
Get(opt, default) == IF opt = <<>> THEN default ELSE opt[1]

\* asdict(t), as json.dump writes it
AsDict(t) ==
    [title |-> <<t.title>>, done |-> <<t.done>>, priority |-> <<t.priority>>,
     due |-> <<t.due>>, created |-> <<t.created>>]

\* a load that stamps every task with the time of the load
FromDictCreatedAnew(item, t) ==
    Task(Get(item.title, <<>>), Get(item.done, FALSE), Get(item.priority, Medium),
         Get(item.due, None), t)

\* the Task load_tasks builds from one stored object, at clock value t
FromDict(item, t) ==
    Task(Get(item.title, <<>>), Get(item.done, FALSE), Get(item.priority, Medium),
         Get(item.due, None), Get(item.created, t))

\* load_tasks: the tasks, and whether the Load Error box was shown
LoadTasks(f, t) ==
    IF f.kind = "absent" THEN [tasks |-> <<>>, error |-> FALSE]
    ELSE IF f.kind = "corrupt" THEN [tasks |-> <<>>, error |-> TRUE]
    ELSE [tasks |-> [i \in 1..Len(f.items) |-> FromDict(f.items[i], t)],
          error |-> FALSE]

\* How a write of the file can end: written; open() refused, the file is
\* as it was; the write broke off after open() truncated the file.
IOOutcomes == {"ok", "denied", "partial"}

\* a save that writes the first task only
SaveTasksFirstOnly(f, ts, io) ==
    IF io = "ok" THEN JsonFile([i \in 1..(IF ts = <<>> THEN 0 ELSE 1) |-> AsDict(ts[i])])
    ELSE IF io = "denied" THEN f
    ELSE Corrupt

\* save_tasks: the file after it, given how the write ended
SaveTasks(f, ts, io) ==
    IF io = "ok" THEN JsonFile([i \in 1..Len(ts) |-> AsDict(ts[i])])
    ELSE IF io = "denied" THEN f
    ELSE Corrupt

-----------------------------------------------------------------------------
(* Filter, search and the projection *)

FilterModes == {"All", "Active", "Completed", "Due Today", "Overdue", "High Priority"}

\* a filter whose "High Priority" forgets the done flag
MatchesFilterHighWithDone(t, f, today) ==
    IF f = "All" THEN TRUE
    ELSE IF f = "Active" THEN ~t.done
    ELSE IF f = "Completed" THEN t.done
    ELSE IF f = "Due Today" THEN IsDueToday(t, today)
    ELSE IF f = "Overdue" THEN IsOverdue(t, today)
    ELSE IF f = "High Priority" THEN t.priority = High
    ELSE TRUE

\* TodoApp._matches_filter
MatchesFilter(t, f, today) ==
    IF f = "All" THEN TRUE
    ELSE IF f = "Active" THEN ~t.done
    ELSE IF f = "Completed" THEN t.done
    ELSE IF f = "Due Today" THEN IsDueToday(t, today)
    ELSE IF f = "Overdue" THEN IsOverdue(t, today)
    ELSE IF f = "High Priority" THEN t.priority = High /\ ~t.done
    ELSE TRUE

\* f"{t.title} {t.priority} {t.due or ''}"
Hay(t) ==
    t.title \o <<SP>> \o t.priority \o <<SP>> \o (IF Truthy(t.due) THEN t.due ELSE <<>>)

\* TodoApp._matches_search
MatchesSearch(t, search) ==
    LET q == Lower(Strip(search))
    IN  IF q = <<>> THEN TRUE ELSE Contains(q, Lower(Hay(t)))

\* The loop of refresh_view that fills filtered_indices: the 0-based store
\* positions of the visible tasks, in store order.
RECURSIVE BuildFrom(_, _, _, _, _)
BuildFrom(ts, i, f, search, today) ==
    IF i > Len(ts) THEN <<>>
    ELSE (IF MatchesFilter(ts[i], f, today) /\ MatchesSearch(ts[i], search)
          THEN <<i - 1>> ELSE <<>>) \o BuildFrom(ts, i + 1, f, search, today)

\* a rebuild that forgets the search text
RebuildIgnoringSearch(ts, f, search, today) == BuildFrom(ts, 1, f, <<>>, today)

Rebuild(ts, f, search, today) == BuildFrom(ts, 1, f, search, today)

\* a status column that never says Done
StatusLabelWithoutDone(t, today) ==
    IF IsOverdue(t, today) THEN "Overdue"
    ELSE IF IsDueToday(t, today) THEN "Due Today"
    ELSE "Pending"

\* the status column of a row
StatusLabel(t, today) ==
    IF t.done THEN "Done"
    ELSE IF IsOverdue(t, today) THEN "Overdue"
    ELSE IF IsDueToday(t, today) THEN "Due Today"
    ELSE "Pending"

\* the rows refresh_view inserts, iid = row index
Rows(ts, idx, today) ==
    [r \in 1..Len(idx) |->
        LET t == ts[idx[r] + 1]
        IN  <<t.title, t.priority, IF Truthy(t.due) THEN t.due ELSE <<>>,
              StatusLabel(t, today)>>]

\* what _selected_index returns for "no selection" (Python's None)
NoSelection == -1

\* a resolution that takes the view row for the store position
SelectedIndexUnmapped(selection, idx) ==
    IF selection = <<>> THEN NoSelection
    ELSE IF selection[1] < 0 \/ selection[1] >= Len(idx) THEN NoSelection
    ELSE selection[1]

\* TodoApp._selected_index: the store position of the selected row
SelectedIndex(selection, idx) ==
    IF selection = <<>> THEN NoSelection
    ELSE LET view_row == selection[1]
         IN  IF view_row < 0 \/ view_row >= Len(idx) THEN NoSelection
             ELSE idx[view_row + 1]

-----------------------------------------------------------------------------
(* Inputs: what the user types or picks, and what the file holds at start *)

D0904 == <<"2", "0", "2", "5", "-", "0", "9", "-", "0", "4">>
D95 == <<"2", "0", "2", "5", "-", "9", "-", "5">>
D0931 == <<"2", "0", "2", "5", "-", "0", "9", "-", "3", "1">>
Top == <<"T", "o", "p">>

\* The entries of the add row when Add Task is pressed: <<title, priority,
\* due>>.  The priority comes from the read-only combobox (line 121).
AddInputs ==
    {<<<<SP>>, Medium, <<>>>>, <<<<"a">>, Medium, D0931>>}
    \cup ({<<"a">>, <<SP, "B", SP>>} \X {Medium, High}
          \X {<<>>, <<SP>> \o D0904, D95})

\* The answers to the three dialogs of edit_selected: <<title, priority,
\* due>>, None being Cancel (the dialogs after a Cancel or a refusal are
\* never shown).
EditInputs ==
    {<<None, None, None>>, <<<<"a">>, None, None>>, <<<<"a">>, Top, None>>,
     <<<<SP>>, <<SP>> \o Medium, None>>, <<<<"a">>, High, None>>,
     <<<<SP>>, High, D0931>>}
    \cup ({<<SP>>, <<"a">>, <<SP, "B", SP>>}
          \X {<<"h", "i", "g", "h">>, <<"M", "E", "D", "I", "U", "M">>}
          \X {<<>>, <<SP>> \o D0904, D95})

\* the filter combobox and the search entry, as the store's operations are
\* checked
StoreFilters == {"All", "Active"}
StoreSearches == {<<>>}

\* the same inputs, fewer of them, where every filter mode and a search
\* text are used
ViewAddInputs ==
    {<<<<SP>>, Medium, <<>>>>, <<<<"a">>, Medium, D0931>>,
     <<<<"a">>, High, <<SP>> \o D0904>>, <<<<SP, "B", SP>>, Medium, D95>>,
     <<<<"a">>, Medium, <<>>>>}

ViewEditInputs ==
    {<<None, None, None>>, <<<<"a">>, Top, None>>, <<<<SP>>, High, D0931>>,
     <<<<SP>>, <<"h", "i", "g", "h">>, D95>>, <<<<"a">>, Medium, <<>>>>}

ViewSearches == {<<>>, <<SP, "H">>}

\* the file before the program starts: none; not JSON; a hand-written
\* record with keys missing and a priority the program does not know; a
\* record as an earlier run wrote it
InitFiles ==
    {NoFile, Corrupt,
     JsonFile(<<[title |-> <<<<"a">>>>, done |-> <<>>, priority |-> <<Top>>,
                 due |-> <<D0931>>, created |-> <<>>]>>),
     JsonFile(<<AsDict(Task(<<"B">>, TRUE, Medium, None, 0))>>)}

\* a file of three tasks as an earlier run stored them, the second done
ThreeTasks ==
    <<Task(<<"a">>, FALSE, Medium, D0904, 0), Task(<<"B">>, TRUE, Medium, None, 0),
      Task(<<"T">>, FALSE, High, None, 0)>>

StoreFiles == {JsonFile([i \in 1..3 |-> AsDict(ThreeTasks[i])])}

\* the file where every write of the file can fail: not JSON, or one done
\* task as an earlier run stored it
IOFiles == {Corrupt, JsonFile(<<AsDict(Task(<<"B">>, TRUE, Medium, None, 0))>>)}

\* few inputs, for the store of three tasks and for the writes that fail
FewAddInputs == {<<<<SP>>, Medium, <<>>>>, <<<<"a">>, Medium, <<>>>>}

FewEditInputs == {<<None, None, None>>, <<<<"a">>, High, <<>>>>}

-----------------------------------------------------------------------------
(* TodoApp *)

\* what `last` records: the handler, how it ended, how many times it called
\* save_tasks, the inputs it read, and how each call of save_tasks ended
Ended(op, res, saves, args) ==
    [op |-> op, res |-> res, saves |-> saves, args |-> args, io |-> <<>>]

\* the record of a handler that called save_tasks, the calls ending as ios
EndedSaving(op, res, args, ios) ==
    [op |-> op, res |-> res, saves |-> Len(ios), args |-> args, io |-> ios]

\* a refresh_view that a failed write would keep from running
RefreshViewAbortedByFailure(ts, f, q, f0, io) ==
    /\ filtered_indices' =
           IF io = "ok" THEN Rebuild(ts, f, q, TodayDate(now)) ELSE filtered_indices
    /\ tree' = IF io = "ok"
                THEN Rows(ts, Rebuild(ts, f, q, TodayDate(now)), TodayDate(now))
                ELSE tree
    /\ sel' = <<>>
    /\ viewDate' = IF io = "ok" THEN now ELSE viewDate
    /\ file' = SaveTasks(f0, ts, io)

\* a refresh_view that does not save
RefreshViewWithoutSave(ts, f, q, f0, io) ==
    /\ filtered_indices' = Rebuild(ts, f, q, TodayDate(now))
    /\ tree' = Rows(ts, Rebuild(ts, f, q, TodayDate(now)), TodayDate(now))
    /\ sel' = <<>>
    /\ viewDate' = now
    /\ file' = f0

\* TodoApp.refresh_view on store ts with filter f and search text q, the
\* file being f0 before its closing save_tasks, which ends as io
RefreshView(ts, f, q, f0, io) ==
    /\ filtered_indices' = Rebuild(ts, f, q, TodayDate(now))
    /\ tree' = Rows(ts, Rebuild(ts, f, q, TodayDate(now)), TodayDate(now))
    /\ sel' = <<>>
    /\ viewDate' = now
    /\ file' = SaveTasks(f0, ts, io)

\* a handler that returns before it touches anything
Untouched ==
    UNCHANGED <<tasks, filtered_indices, tree, sel, filter_var, search_var, file,
                now, viewDate>>

\* TodoApp.__init__, the file being f0: load_tasks, then refresh_view
Construct(f0, io) ==
    LET ld == LoadTasks(f0, StartTime)
        idx == Rebuild(ld.tasks, "All", <<>>, TodayDate(StartTime))
    IN  /\ now = StartTime
        /\ tasks = ld.tasks
        /\ filter_var = "All"
        /\ search_var = <<>>
        /\ filtered_indices = idx
        /\ tree = Rows(ld.tasks, idx, TodayDate(StartTime))
        /\ sel = <<>>
        /\ viewDate = StartTime
        /\ file = SaveTasks(f0, ld.tasks, io)
        /\ last = EndedSaving("init", IF ld.error THEN "load_error" ELSE "ok", <<>>, <<io>>)

Init == \E f0 \in InitFiles : Construct(f0, "ok")

\* an add that puts the new task first
PrependTask(ts, t) == <<t>> \o ts

\* self.tasks.append(t)
AppendTask(ts, t) == Append(ts, t)

\* TodoApp.add_task with the entries holding title_in, prio_in, due_in
AddTask(title_in, prio_in, due_in, io1, io2) ==
    LET title == Strip(title_in)
        prio == IF Strip(prio_in) = <<>> THEN Medium ELSE Strip(prio_in)
        due == IF Strip(due_in) = <<>> THEN None ELSE Strip(due_in)
        args == <<title_in, prio_in, due_in>>
    IN  IF title = <<>>
        THEN Untouched /\ last' = Ended("add", "missing_title", 0, args)
        ELSE IF Truthy(due) /\ ~ValidDate(due)
        THEN Untouched /\ last' = Ended("add", "invalid_date", 0, args)
        ELSE /\ Len(tasks) < MaxTasks
             /\ tasks' = AppendTask(tasks, Task(title, FALSE, prio, due, DefaultCreated))
             /\ RefreshView(tasks', filter_var, search_var,
                            SaveTasks(file, tasks', io1), io2)
             /\ UNCHANGED <<filter_var, search_var, now>>
             /\ last' = EndedSaving("add", "ok", args, <<io1, io2>>)

\* The task list with the task at 0-based position idx replaced by t
ReplaceAt(ts, idx, t) == [ts EXCEPT ![idx + 1] = t]

\* a pop that always takes the last task
RemoveLast(ts, idx) == SubSeq(ts, 1, Len(ts) - 1)

\* list.pop(idx)
RemoveAt(ts, idx) == SubSeq(ts, 1, idx) \o SubSeq(ts, idx + 2, Len(ts))

\* a title rule that stores the blank answer
NewTitleBlank(a_title, old) == Strip(a_title)

\* new_title.strip() or t.title
NewTitle(a_title, old) == IF Strip(a_title) = <<>> THEN old ELSE Strip(a_title)

\* an edit that builds the task anew
EditedAnew(t, title, prio, due) == Task(title, FALSE, prio, due, DefaultCreated)

\* t.title, t.priority, t.due = new_title, new_prio, new_due
Edited(t, title, prio, due) ==
    [t EXCEPT !.title = title, !.priority = prio, !.due = due]

\* TodoApp.edit_selected; the three dialogs answer a_title, a_prio, a_due,
\* None being Cancel.  A dialog that is never shown has no answer to read.
EditSelected(a_title, a_prio, a_due, io1, io2) ==
    LET idx == SelectedIndex(sel, filtered_indices)
        t == tasks[idx + 1]
        new_title == NewTitle(a_title, t.title)
        new_prio == Capitalize(a_prio)
        new_due == IF Strip(a_due) = <<>> THEN None ELSE Strip(a_due)
    IN  IF idx = NoSelection
        THEN Untouched /\ last' = Ended("edit", "no_selection", 0, <<>>)
        ELSE IF a_title = None
        THEN Untouched /\ last' = Ended("edit", "cancel_title", 0, <<a_title>>)
        ELSE IF a_prio = None
        THEN Untouched /\ last' = Ended("edit", "cancel_priority", 0, <<a_title, a_prio>>)
        ELSE IF new_prio \notin {Low, Medium, High}
        THEN Untouched /\ last' = Ended("edit", "invalid_priority", 0, <<a_title, a_prio>>)
        ELSE IF a_due = None
        THEN Untouched /\ last' = Ended("edit", "cancel_due", 0, <<a_title, a_prio, a_due>>)
        ELSE IF Truthy(new_due) /\ ~ValidDate(new_due)
        THEN Untouched /\ last' = Ended("edit", "invalid_date", 0, <<a_title, a_prio, a_due>>)
        ELSE /\ tasks' = ReplaceAt(tasks, idx, Edited(t, new_title, new_prio, new_due))
             /\ RefreshView(tasks', filter_var, search_var,
                            SaveTasks(file, tasks', io1), io2)
             /\ UNCHANGED <<filter_var, search_var, now>>
             /\ last' = EndedSaving("edit", "ok", <<a_title, a_prio, a_due>>, <<io1, io2>>)

\* a toggle that can only tick a task off
ToggledToDone(ts, idx) == ReplaceAt(ts, idx, [ts[idx + 1] EXCEPT !.done = TRUE])

\* self.tasks[idx].done = not self.tasks[idx].done
Toggled(ts, idx) == ReplaceAt(ts, idx, [ts[idx + 1] EXCEPT !.done = ~ts[idx + 1].done])

\* TodoApp.toggle_selected
ToggleSelected(io1, io2) ==
    LET idx == SelectedIndex(sel, filtered_indices)
    IN  IF idx = NoSelection
        THEN Untouched /\ last' = Ended("toggle", "no_selection", 0, <<>>)
        ELSE /\ tasks' = Toggled(tasks, idx)
             /\ RefreshView(tasks', filter_var, search_var,
                            SaveTasks(file, tasks', io1), io2)
             /\ UNCHANGED <<filter_var, search_var, now>>
             /\ last' = EndedSaving("toggle", "ok", <<>>, <<io1, io2>>)

\* TodoApp.delete_selected; yes is the answer to the askyesno box
DeleteSelected(yes, io1, io2) ==
    LET idx == SelectedIndex(sel, filtered_indices)
    IN  IF idx = NoSelection
        THEN Untouched /\ last' = Ended("delete", "no_selection", 0, <<>>)
        ELSE IF ~yes
        THEN Untouched /\ last' = Ended("delete", "declined", 0, <<yes>>)
        ELSE /\ tasks' = RemoveAt(tasks, idx)
             /\ RefreshView(tasks', filter_var, search_var,
                            SaveTasks(file, tasks', io1), io2)
             /\ UNCHANGED <<filter_var, search_var, now>>
             /\ last' = EndedSaving("delete", "ok", <<yes>>, <<io1, io2>>)

\* a test that also drops the tasks of priority High
NotDoneNorHigh(t) == ~t.done /\ t.priority # High

\* [t for t in self.tasks if not t.done]
NotDone(t) == ~t.done

\* TodoApp.clear_completed
ClearCompleted(io1, io2) ==
    LET kept == SelectSeq(tasks, NotDone)
    IN  IF Len(kept) # Len(tasks)
        THEN /\ tasks' = kept
             /\ RefreshView(tasks', filter_var, search_var,
                            SaveTasks(file, tasks', io1), io2)
             /\ UNCHANGED <<filter_var, search_var, now>>
             /\ last' = EndedSaving("clear", "ok", <<>>, <<io1, io2>>)
        ELSE Untouched /\ last' = Ended("clear", "nothing", 0, <<>>)

\* the filter combobox is set to f: the trace on filter_var runs refresh_view
SetFilter(f, io) ==
    /\ filter_var' = f
    /\ RefreshView(tasks, f, search_var, file, io)
    /\ UNCHANGED <<tasks, search_var, now>>
    /\ last' = EndedSaving("filter", "ok", <<f>>, <<io>>)

\* the search entry is set to q: the trace on search_var runs refresh_view
SetSearch(q, io) ==
    /\ search_var' = q
    /\ RefreshView(tasks, filter_var, q, file, io)
    /\ UNCHANGED <<tasks, filter_var, now>>
    /\ last' = EndedSaving("search", "ok", <<q>>, <<io>>)

\* the user clicks row r of the tree (selectmode "browse")
SelectRow(r) ==
    /\ r \in 0..(Len(tree) - 1)
    /\ sel' = <<r>>
    /\ last' = Ended("select", "ok", 0, <<r>>)
    /\ UNCHANGED <<tasks, filtered_indices, tree, filter_var, search_var, file, now,
                   viewDate>>

\* the clock moves on
Tick ==
    /\ now < MaxTime
    /\ now' = now + 1
    /\ last' = Ended("tick", "ok", 0, <<>>)
    /\ UNCHANGED <<tasks, filtered_indices, tree, sel, filter_var, search_var, file,
                   viewDate>>

\* one handler runs, or the clock moves; every write of the file ends in
\* one of the ways ios
Step(adds, edits, filters, searches, ios) ==
    \/ \E in \in adds, io1, io2 \in ios : AddTask(in[1], in[2], in[3], io1, io2)
    \/ \E in \in edits, io1, io2 \in ios : EditSelected(in[1], in[2], in[3], io1, io2)
    \/ \E io1, io2 \in ios : ToggleSelected(io1, io2)
    \/ \E yes \in BOOLEAN, io1, io2 \in ios : DeleteSelected(yes, io1, io2)
    \/ \E io1, io2 \in ios : ClearCompleted(io1, io2)
    \/ \E f \in filters, io \in ios : SetFilter(f, io)
    \/ \E q \in searches, io \in ios : SetSearch(q, io)
    \/ \E r \in 0..(MaxTasks - 1) : SelectRow(r)
    \/ Tick

\* every write of the file succeeds
NoFailure == {"ok"}

Next == Step(AddInputs, EditInputs, StoreFilters, StoreSearches, NoFailure)

Spec == Init /\ [][Next]_vars

NextView == Step(ViewAddInputs, ViewEditInputs, FilterModes, ViewSearches, NoFailure)

SpecView == Init /\ [][NextView]_vars

\* The program started on a file of three tasks.
InitStore == \E f0 \in StoreFiles : Construct(f0, "ok")

NextStore == Step(FewAddInputs, FewEditInputs, StoreFilters, StoreSearches, NoFailure)

SpecStore == InitStore /\ [][NextStore]_vars

\* The program with writes of the file that fail.
InitIO == \E f0 \in IOFiles, io \in IOOutcomes : Construct(f0, io)

NextIO == Step(FewAddInputs, FewEditInputs, StoreFilters, StoreSearches, IOOutcomes)

SpecIO == InitIO /\ [][NextIO]_vars

-----------------------------------------------------------------------------
(* The projection *)

UserOps == {"add", "edit", "toggle", "delete", "clear", "filter", "search"}

\* t is visible on the day the clock read `at`
Visible(t, at) ==
    MatchesFilter(t, filter_var, TodayDate(at)) /\ MatchesSearch(t, search_var)

\* filtered_indices lists, in strictly increasing order, exactly the store
\* positions of the tasks visible on the day the clock read `at`
ProjectionExact(at) ==
    /\ \A r \in 1..Len(filtered_indices) :
           filtered_indices[r] \in 0..(Len(tasks) - 1)
    /\ \A r \in 1..(Len(filtered_indices) - 1) :
           filtered_indices[r] < filtered_indices[r + 1]
    /\ \A i \in 0..(Len(tasks) - 1) :
           (\E r \in 1..Len(filtered_indices) : filtered_indices[r] = i)
               <=> Visible(tasks[i + 1], at)

\* C1 as stated: after every user operation, also a rejected or cancelled
\* one, filtered_indices is exactly the increasing sequence of the store
\* positions whose tasks satisfy the current filter mode and search text.
C1_ProjectionNeverStale == last.op \in UserOps => ProjectionExact(now)

\* C1 as amended: in every state filtered_indices is exactly the increasing
\* sequence of the store positions whose tasks satisfied the current filter
\* mode and search text on the day of the last rebuild; every operation
\* that rebuilds (a successful add, edit, toggle or delete, a clear that
\* removes a task, a filter or search change) leaves it exact for the
\* current day.
C1_ProjectionExactAsOfRebuild ==
    /\ ProjectionExact(viewDate)
    /\ (last.op \in UserOps \cup {"init"} /\ last.saves > 0) => viewDate = now

\* a rejected add has run with a filter and a search text that hide a task
C1_Witness ==
    /\ last.op = "add" /\ last.res = "invalid_date"
    /\ filter_var = "High Priority" /\ search_var # <<>>
    /\ Len(tasks) = 2 /\ Len(filtered_indices) = 1 /\ filtered_indices[1] = 1

\* C2: resolving a view row gives filtered_indices[view_row] when the row
\* is within the projection and "no selection" otherwise, also when nothing
\* is selected; a position it gives is a valid index into the store.
C2_ResolveInRange ==
    /\ SelectedIndex(<<>>, filtered_indices) = NoSelection
    /\ \A row \in -1..(MaxTasks + 1) :
           LET idx == SelectedIndex(<<row>>, filtered_indices)
           IN  /\ (0 <= row /\ row < Len(filtered_indices))
                      => idx = filtered_indices[row + 1]
               /\ ~(0 <= row /\ row < Len(filtered_indices)) => idx = NoSelection
               /\ idx # NoSelection => (0 <= idx /\ idx < Len(tasks))
    /\ sel # <<>> => SelectedIndex(sel, filtered_indices) \in 0..(Len(tasks) - 1)

\* a row is selected whose store position is not the row's own index
C2_Witness ==
    /\ sel = <<0>>
    /\ SelectedIndex(sel, filtered_indices) = 1
    /\ Len(tasks) = 2

-----------------------------------------------------------------------------
(* Priorities and validation *)

\* C3: every task in the store has a priority in {Low, Medium, High}, after
\* load of any file content, after add and after edit.
C3_PriorityAlwaysListed ==
    \A i \in 1..Len(tasks) : tasks[i].priority \in Priorities

\* s is written YYYY-MM-DD: four digits, two digits, two digits, and names
\* a day of the calendar
IsYMD(s) ==
    /\ Len(s) = 10
    /\ \A i \in {1, 2, 3, 4, 6, 7, 9, 10} : s[i] \in Digits
    /\ s[5] = "-" /\ s[8] = "-"
    /\ ParseDate(s) # Invalid

\* the text an entry or a dialog answer stands for: trimmed, None when blank
Entered(s) == IF Strip(s) = <<>> THEN None ELSE Strip(s)

\* C4: add with a title that is empty after trimming, or with a due value
\* that is present and is not written YYYY-MM-DD, is rejected: the store
\* and the projection are unchanged and nothing is written to the file.
C4_InvalidAddRejected ==
    [][(/\ last'.op = "add"
        /\ \/ Strip(last'.args[1]) = <<>>
           \/ Entered(last'.args[3]) # None /\ ~IsYMD(Entered(last'.args[3])))
          => (/\ last'.res # "ok" /\ last'.saves = 0
              /\ UNCHANGED <<tasks, filtered_indices, tree, file>>)]_vars

\* the edit that `last` records got as far as reading the title answer,
\* and the answer was not Cancel but was empty after trimming
BlankTitleEdit(l) ==
    /\ l.op = "edit" /\ Len(l.args) >= 1
    /\ l.args[1] # None /\ Strip(l.args[1]) = <<>>

\* C5 as stated: edit of an existing task with a title that is empty after
\* trimming fails and changes nothing, whatever else was answered.
C5_BlankTitleEditFails ==
    [][BlankTitleEdit(last') => (last'.res # "ok" /\ tasks' = tasks)]_vars

\* C5 as amended: edit of an existing task with a title that is empty after
\* trimming keeps the task's title and goes on: when the priority and due
\* answers are accepted the edit succeeds, the title is as before and the
\* priority and due are the ones answered; otherwise nothing changes.
C5_BlankTitleEditKeepsTitle ==
    [][BlankTitleEdit(last') =>
          LET k == SelectedIndex(sel, filtered_indices) + 1
              in == last'.args
              accepted ==
                  /\ Len(in) = 3
                  /\ in[2] # None /\ Capitalize(in[2]) \in Priorities
                  /\ in[3] # None
                  /\ (Entered(in[3]) = None \/ ParseDate(Entered(in[3])) # Invalid)
          IN  IF accepted
              THEN /\ last'.res = "ok"
                   /\ Len(tasks') = Len(tasks)
                   /\ tasks'[k].title = tasks[k].title
                   /\ tasks'[k].priority = Capitalize(in[2])
                   /\ tasks'[k].due = Entered(in[3])
              ELSE last'.res # "ok" /\ tasks' = tasks]_vars

\* an edit with a blank title answer has changed the priority and the due
\* date of a task that an earlier run stored
C5_Witness ==
    /\ BlankTitleEdit(last) /\ last.res = "ok"
    /\ \E i \in 1..Len(tasks) :
           /\ tasks[i].title = <<"B">> /\ tasks[i].created = 0
           /\ tasks[i].priority = High /\ tasks[i].due = D95

\* C6: edit with a priority that is none of Low, Medium, High (in any
\* letter case), or with a due value that is present and is not written
\* YYYY-MM-DD, is rejected and changes nothing: no field of the selected
\* task, the store or the file.
C6_InvalidEditRejected ==
    [][(/\ last'.op = "edit" /\ Len(last'.args) >= 2
        /\ last'.args[1] # None /\ last'.args[2] # None
        /\ \/ Capitalize(last'.args[2]) \notin Priorities
           \/ /\ Len(last'.args) = 3 /\ last'.args[3] # None
              /\ Entered(last'.args[3]) # None /\ ~IsYMD(Entered(last'.args[3])))
          => (last'.res # "ok" /\ UNCHANGED <<tasks, file>>)]_vars

-----------------------------------------------------------------------------
(* Frames *)

\* C7: a successful edit changes only title, priority and due of the task
\* at the resolved position: its done and created, every other task and
\* the store's length and order are as before; no edit, however it ends,
\* changes a task's created.
C7_EditFrame ==
    [][last'.op = "edit" =>
          /\ Len(tasks') = Len(tasks)
          /\ \A j \in 1..Len(tasks) :
                 /\ tasks'[j].created = tasks[j].created
                 /\ tasks'[j].done = tasks[j].done
                 /\ j # SelectedIndex(sel, filtered_indices) + 1 => tasks'[j] = tasks[j]
          /\ last'.res # "ok" => tasks' = tasks]_vars

\* an edit has changed the title of a done task that an earlier run stored,
\* the second of two
C7_Witness ==
    /\ last.op = "edit" /\ last.res = "ok"
    /\ Len(tasks) = 2
    /\ tasks[1].done /\ tasks[1].created = 0 /\ tasks[1].title = <<"a">>

\* C8: a task created by add has created equal to the time at which that
\* add ran.
C8_CreatedIsAddTime ==
    [][(last'.op = "add" /\ last'.res = "ok")
          => tasks'[Len(tasks')].created = now]_vars

\* tasks' comes from tasks by dropping some positions, the rest in order
KeepsOrderOfSurvivors ==
    \E gone \in SUBSET (1..Len(tasks)) :
        LET keep(i) == i \notin gone
            pos == SelectSeq([i \in 1..Len(tasks) |-> i], keep)
        IN  tasks' = [r \in 1..Len(pos) |-> tasks[pos[r]]]

-----------------------------------------------------------------------------
(* Derived status *)

\* due values of every kind: absent, empty, today or past or future
\* depending on the day, not padded, not a day of the calendar, not a date
DueSamples == {None, <<>>, D0904, D95, D0931, <<"x">>}

\* C10: for every task with done = true, is_overdue() and is_due_today()
\* are both false, whatever its due value and whatever the current date.
C10_DoneNeverOverdueNorDueToday ==
    \A i \in 1..Len(tasks) :
        \A d \in DueSamples \cup {tasks[i].due}, day \in 0..(MaxTime + 1) :
            LET t == [tasks[i] EXCEPT !.due = d]
            IN  t.done => /\ ~IsOverdue(t, TodayDate(day))
                          /\ ~IsDueToday(t, TodayDate(day))

\* a done task whose due date is past is shown in the tree
C10_Witness ==
    \E r \in 1..Len(tree) :
        LET t == tasks[filtered_indices[r] + 1]
        IN  /\ t.done /\ tree[r][4] = "Done"
            /\ ParseDate(t.due) # Invalid
            /\ DateLess(ParseDate(t.due), TodayDate(now))

\* the number of a day, larger for a later day
DayNumber(d) == 372 * d[1] + 31 * d[2] + d[3]

\* the due date of the repository's test: long past
D2000 == <<"2", "0", "0", "0", "-", "0", "1", "-", "0", "1">>

\* the days the derived status is asked on: from the day before the
\* program started to the day after the clock's last value
Days == 0..(MaxTime + 1)

\* C11: is_overdue() is true exactly when done is false, due is present and
\* parses as a date, and that date is strictly before today; in every other
\* case, an absent or unparseable due included, it is false.  A not-done
\* task whose due date is past is overdue; a not-done task due today is not.
C11_OverdueExactly ==
    /\ \A i \in 1..Len(tasks) :
           \A d \in DueSamples \cup {D2000, tasks[i].due}, dn \in BOOLEAN, day \in Days :
               LET t == [tasks[i] EXCEPT !.due = d, !.done = dn]
                   today == TodayDate(day)
               IN  /\ IsOverdue(t, today) \in BOOLEAN
                   /\ IsOverdue(t, today) <=>
                          /\ ~dn
                          /\ d # None
                          /\ ParseDate(d) # Invalid
                          /\ DayNumber(ParseDate(d)) < DayNumber(today)
    /\ \A day \in Days :
           /\ IsOverdue(Task(<<"D">>, FALSE, Medium, D2000, 0), TodayDate(day))
           /\ ~IsOverdue(Task(<<"D">>, FALSE, Medium, D0904, 0), TodayDate(1))
           /\ day > 1 => IsOverdue(Task(<<"D">>, FALSE, Medium, D0904, 0), TodayDate(day))
           /\ ~IsOverdue(Task(<<"D">>, FALSE, Medium, D0931, 0), TodayDate(day))

\* the store holds a not-done task that is overdue now and a not-done task
\* that is due today and is not overdue
C11_Witness ==
    /\ Len(tasks) = 2
    /\ \E i, j \in 1..2 :
           /\ ~tasks[i].done /\ IsOverdue(tasks[i], TodayDate(now))
           /\ ~tasks[j].done /\ IsDueToday(tasks[j], TodayDate(now))
           /\ ~IsOverdue(tasks[j], TodayDate(now))

\* the label with the last two checks the other way round
LabelDueTodayFirst(t, today) ==
    IF t.done THEN "Done"
    ELSE IF IsDueToday(t, today) THEN "Due Today"
    ELSE IF IsOverdue(t, today) THEN "Overdue"
    ELSE "Pending"

\* C12: the status label of a task is Done when it is done, else Overdue
\* when is_overdue(), else Due Today when is_due_today(), else Pending;
\* is_overdue() and is_due_today() are never both true, so the label is the
\* same when the last two checks change places.  Every row of the tree
\* carries that label of the task it stands for.
C12_StatusLabelOrdered ==
    /\ \A r \in 1..Len(tree) :
           LET t == tasks[filtered_indices[r] + 1]
               today == TodayDate(viewDate)
           IN  /\ tree[r][4] = LabelDueTodayFirst(t, today)
               /\ tree[r][4] = "Done" <=> t.done
               /\ tree[r][4] = "Overdue" <=> (~t.done /\ IsOverdue(t, today))
               /\ tree[r][4] = "Due Today" <=>
                      (~t.done /\ ~IsOverdue(t, today) /\ IsDueToday(t, today))
               /\ tree[r][4] = "Pending" <=>
                      (~t.done /\ ~IsOverdue(t, today) /\ ~IsDueToday(t, today))
    /\ \A i \in 1..Len(tasks) :
           \A d \in DueSamples \cup {D2000, tasks[i].due}, dn \in BOOLEAN, day \in Days :
               LET t == [tasks[i] EXCEPT !.due = d, !.done = dn]
                   today == TodayDate(day)
               IN  /\ ~(IsOverdue(t, today) /\ IsDueToday(t, today))
                   /\ StatusLabel(t, today) = LabelDueTodayFirst(t, today)
    /\ \A day \in Days :
           /\ StatusLabel(Task(<<"A">>, FALSE, Medium, D2000, 0), TodayDate(day)) = "Overdue"
           /\ StatusLabel(Task(<<"B">>, TRUE, Medium, None, 0), TodayDate(day)) = "Done"

\* the tree shows a done task and an overdue one
C12_Witness ==
    /\ Len(tree) = 2
    /\ \E r, q \in 1..2 : tree[r][4] = "Done" /\ tree[q][4] = "Overdue"

\* the filter predicate, mode by mode
FilterPredicate(t, f, today) ==
    CASE f = "All" -> TRUE
      [] f = "Active" -> ~t.done
      [] f = "Completed" -> t.done
      [] f = "Due Today" -> IsDueToday(t, today)
      [] f = "Overdue" -> IsOverdue(t, today)
      [] f = "High Priority" -> (t.priority = High /\ ~t.done)

\* search texts that are empty after trimming
BlankSearches == {<<>>, <<SP>>, <<SP, SP>>}

\* the 0-based positions of the tasks of ts that satisfy filter mode f
FilterAlone(ts, f, today) ==
    LET keep(i) == FilterPredicate(ts[i + 1], f, today)
    IN  SelectSeq([i \in 1..Len(ts) |-> i - 1], keep)

\* C13: a task is visible exactly when the filter predicate and the search
\* predicate both hold, the filter predicate being: All, true; Active, not
\* done; Completed, done; Due Today, is_due_today(); Overdue, is_overdue();
\* High Priority, priority High and not done.  A search text that is empty
\* or blank matches every task, so the projection is then that of the
\* filter alone: the store [A not done, B done] gives [0, 1] under All and
\* [0] under Active.
C13_VisibleIffFilterAndSearch ==
    /\ \A i \in 0..(Len(tasks) - 1) :
           (\E r \in 1..Len(filtered_indices) : filtered_indices[r] = i)
               <=> /\ FilterPredicate(tasks[i + 1], filter_var, TodayDate(viewDate))
                   /\ MatchesSearch(tasks[i + 1], search_var)
    /\ \A f \in FilterModes, day \in Days :
           /\ \A i \in 1..Len(tasks) :
                  MatchesFilter(tasks[i], f, TodayDate(day))
                      <=> FilterPredicate(tasks[i], f, TodayDate(day))
           /\ \A q \in BlankSearches :
                  Rebuild(tasks, f, q, TodayDate(day)) = FilterAlone(tasks, f, TodayDate(day))
    /\ \A i \in 1..Len(tasks), q \in BlankSearches : MatchesSearch(tasks[i], q)
    /\ LET A == Task(<<"A">>, FALSE, Medium, D2000, 0)
           B == Task(<<"B">>, TRUE, Medium, None, 0)
       IN  /\ Rebuild(<<A, B>>, "All", <<>>, TodayDate(now)) = <<0, 1>>
           /\ Rebuild(<<A, B>>, "Active", <<>>, TodayDate(now)) = <<0>>

\* under High Priority a done task of priority High is hidden and a
\* not-done one is shown
C13_Witness ==
    /\ filter_var = "High Priority" /\ Strip(search_var) = <<>>
    /\ Len(tasks) = 2 /\ filtered_indices = <<1>>
    /\ tasks[1].priority = High /\ tasks[1].done
    /\ tasks[2].priority = High

-----------------------------------------------------------------------------
(* Removing and toggling *)

\* C14: after clear_completed no task of the store is done, the store holds
\* exactly the tasks that were not done before, in the same relative order
\* and with unchanged fields, and the number of tasks removed is the number
\* of done tasks before the call.
C14_ClearRemovesExactlyDone ==
    [][last'.op = "clear" =>
          LET gone == {i \in 1..Len(tasks) : tasks[i].done}
              kept == (1..Len(tasks)) \ gone
              pos(r) == CHOOSE i \in kept : Cardinality({j \in kept : j <= i}) = r
          IN  /\ \A i \in 1..Len(tasks') : ~tasks'[i].done
              /\ Len(tasks') = Cardinality(kept)
              /\ Len(tasks) - Len(tasks') = Cardinality(gone)
              /\ \A r \in 1..Len(tasks') : tasks'[r] = tasks[pos(r)]
              /\ last'.res = "ok" <=> gone # {}]_vars

\* a clear has removed the done task that stood between two others
C14_Witness ==
    /\ last.op = "clear" /\ last.res = "ok"
    /\ tasks = <<ThreeTasks[1], ThreeTasks[3]>>

\* C15: a confirmed delete of the task resolved from the selected row, at
\* store position k, removes exactly that task: the store is one shorter,
\* the tasks before k keep their positions, the tasks after k move down by
\* one, and in the rebuilt projection every entry that pointed past k is one
\* smaller while the entries before k are as they were.  With no selection,
\* or when the confirmation is declined, the store, the projection and the
\* file are unchanged.
C15_DeleteRemovesResolved ==
    [][last'.op = "delete" =>
          LET k == SelectedIndex(sel, filtered_indices)
              shift(p) == IF p < k THEN p ELSE p - 1
              other(p) == p # k
              old == SelectSeq(filtered_indices, other)
          IN  IF k # NoSelection /\ last'.args = <<TRUE>>
              THEN /\ last'.res = "ok"
                   /\ k \in 0..(Len(tasks) - 1)
                   /\ Len(tasks') = Len(tasks) - 1
                   /\ \A p \in 0..(Len(tasks) - 1) :
                          p # k => tasks'[shift(p) + 1] = tasks[p + 1]
                   /\ filter_var \notin {"Due Today", "Overdue"} =>
                          filtered_indices' = [r \in 1..Len(old) |-> shift(old[r])]
              ELSE /\ last'.res # "ok"
                   /\ UNCHANGED <<tasks, filtered_indices, tree, file>>]_vars

\* a delete has removed the second of three tasks: the first kept its
\* position and the third moved down
C15_Witness ==
    /\ last.op = "delete" /\ last.res = "ok"
    /\ tasks = <<ThreeTasks[1], ThreeTasks[3]>>
    /\ filtered_indices = <<0, 1>>

\* C16: toggle on a resolved row flips done of exactly the task at the
\* resolved store position: that task's title, priority, due and created,
\* every other task and the store's length and order are unchanged, and a
\* second toggle of the same task gives the original store back.  With no
\* valid selection the store is unchanged.
C16_ToggleFlipsOnlyDone ==
    [][last'.op = "toggle" =>
          LET k == SelectedIndex(sel, filtered_indices)
          IN  IF k = NoSelection
              THEN last'.res = "no_selection" /\ UNCHANGED <<tasks, file>>
              ELSE /\ last'.res = "ok"
                   /\ Len(tasks') = Len(tasks)
                   /\ \A j \in 1..Len(tasks) :
                          IF j = k + 1
                          THEN /\ tasks'[j].done = ~tasks[j].done
                               /\ tasks'[j].title = tasks[j].title
                               /\ tasks'[j].priority = tasks[j].priority
                               /\ tasks'[j].due = tasks[j].due
                               /\ tasks'[j].created = tasks[j].created
                          ELSE tasks'[j] = tasks[j]
                   /\ Toggled(tasks', k) = tasks
                   /\ \A p \in 0..(Len(tasks) - 1) :
                          Toggled(Toggled(tasks, p), p) = tasks]_vars

\* a toggle has made the done task of the three not done
C16_Witness ==
    /\ last.op = "toggle" /\ last.res = "ok"
    /\ tasks = <<ThreeTasks[1], [ThreeTasks[2] EXCEPT !.done = FALSE], ThreeTasks[3]>>

-----------------------------------------------------------------------------
(* The backing file *)

Mutations == {"add", "edit", "toggle", "delete", "clear"}

\* the file holds the store: the same tasks, in the same order, with the
\* same field values
StoredExactly ==
    /\ file.kind = "json"
    /\ Len(file.items) = Len(tasks)
    /\ \A i \in 1..Len(tasks) :
           /\ file.items[i].title = <<tasks[i].title>>
           /\ file.items[i].done = <<tasks[i].done>>
           /\ file.items[i].priority = <<tasks[i].priority>>
           /\ file.items[i].due = <<tasks[i].due>>
           /\ file.items[i].created = <<tasks[i].created>>

\* a write of the handler that `l` records did not succeed
FailedWrite(l) == \E n \in 1..Len(l.io) : l.io[n] # "ok"

\* a write of the handler succeeded and no later write of it changed the file
SavedAtLast(l) ==
    \E n \in 1..Len(l.io) :
        l.io[n] = "ok" /\ \A m \in (n + 1)..Len(l.io) : l.io[m] = "denied"

\* C17: after every successful store mutation (add, edit, toggle, confirmed
\* delete, a clear that removes a task) that ran without a failed write, the
\* file holds exactly the store.
C17_FileHoldsStoreAfterMutation ==
    (last.op \in Mutations /\ last.res = "ok" /\ ~FailedWrite(last)) => StoredExactly

\* an add has run without a failed write where writes can fail: the file
\* holds the two tasks of the store
C17_Witness ==
    /\ last.op = "add" /\ last.res = "ok" /\ last.io = <<"ok", "ok">>
    /\ Len(tasks) = 2 /\ StoredExactly

\* what the mutation that `last'` records has done to the store
MutationKept ==
    LET k == SelectedIndex(sel, filtered_indices)
        in == last'.args
    IN  CASE last'.op = "add" ->
                 /\ Len(tasks') = Len(tasks) + 1
                 /\ SubSeq(tasks', 1, Len(tasks)) = tasks
                 /\ tasks'[Len(tasks')].title = Strip(in[1])
          [] last'.op = "edit" ->
                 /\ Len(tasks') = Len(tasks)
                 /\ tasks'[k + 1].priority = Capitalize(in[2])
                 /\ tasks'[k + 1].due = Entered(in[3])
          [] last'.op = "toggle" ->
                 /\ Len(tasks') = Len(tasks)
                 /\ tasks'[k + 1].done = ~tasks[k + 1].done
          [] last'.op = "delete" -> Len(tasks') = Len(tasks) - 1
          [] last'.op = "clear" ->
                 /\ Len(tasks') < Len(tasks)
                 /\ \A i \in 1..Len(tasks') : ~tasks'[i].done

\* every handler can run: none is left waiting for the failed one
HandlersEnabled ==
    /\ ENABLED ToggleSelected("ok", "ok")
    /\ ENABLED DeleteSelected(TRUE, "ok", "ok")
    /\ ENABLED ClearCompleted("ok", "ok")
    /\ ENABLED EditSelected(<<"a">>, High, <<>>, "ok", "ok")
    /\ ENABLED SetFilter("Active", "ok")
    /\ ENABLED SetSearch(<<>>, "ok")
    /\ Len(tasks) < MaxTasks => ENABLED AddTask(<<"a">>, Medium, <<>>, "ok", "ok")
    /\ tree # <<>> => ENABLED SelectRow(0)

\* C18: when a write of the file fails during a mutation, the mutation of
\* the store is kept, the projection is rebuilt and matches the mutated
\* store, the handler ends as a success, and every handler can run
\* afterwards; a later write that succeeds makes the file hold the store.
C18_FailedWriteKeepsMutation ==
    /\ [][/\ (last'.op \in Mutations /\ last'.res = "ok" /\ FailedWrite(last')) =>
                 /\ MutationKept
                 /\ ProjectionExact(now)'
                 /\ viewDate' = now'
                 /\ Len(last'.io) = 2
          /\ SavedAtLast(last') => StoredExactly'
          /\ (last'.io # <<>> /\ last'.io[Len(last'.io)] = "partial") => file' = Corrupt
          /\ (last'.io # <<>> /\ \A n \in 1..Len(last'.io) : last'.io[n] = "denied")
                 => file' = file]_vars
    /\ [](FailedWrite(last) => HandlersEnabled)

\* an add whose two writes failed has left the file broken off; the store
\* and the projection hold the new task
C18_Witness ==
    /\ last.op = "add" /\ last.res = "ok" /\ last.io = <<"partial", "denied">>
    /\ file = Corrupt
    /\ Len(tasks) = 2 /\ filtered_indices = <<0, 1>>

\* C19: save_tasks followed by load_tasks, neither failing, gives back a
\* non-empty store: as many tasks, in the same order, equal in title, done,
\* priority, due and created.  The file the handlers have written loads to
\* the store as well.
C19_SaveLoadRoundTrip ==
    tasks # <<>> =>
        \A t \in Days :
            /\ \A f \in {file, NoFile, Corrupt} :
                   LET ld == LoadTasks(SaveTasks(f, tasks, "ok"), t)
                   IN  /\ ~ld.error
                       /\ Len(ld.tasks) = Len(tasks)
                       /\ \A i \in 1..Len(tasks) :
                              /\ ld.tasks[i].title = tasks[i].title
                              /\ ld.tasks[i].done = tasks[i].done
                              /\ ld.tasks[i].priority = tasks[i].priority
                              /\ ld.tasks[i].due = tasks[i].due
                              /\ ld.tasks[i].created = tasks[i].created
            /\ LoadTasks(file, t).tasks = tasks

\* the store holds a done task without due that an earlier run stored and
\* a task with a due date that this run added
C19_Witness ==
    /\ Len(tasks) = 2
    /\ tasks[1].done /\ tasks[1].due = None /\ tasks[1].created = 0
    /\ ~tasks[2].done /\ tasks[2].due = D95 /\ tasks[2].created = DefaultCreated
    /\ file.kind = "json" /\ Len(file.items) = 2

\* C20: every rebuild of the projection writes the whole store to the
\* file: the one at startup, and the ones that only a filter or search
\* change causes, which leave the store as it is.  When load fails at
\* startup on a file that is not JSON and the store is empty, the file
\* holds an empty list of tasks before the user has done anything.
C20_RebuildAlwaysSaves ==
    /\ []((last.op = "init" /\ last.io = <<"ok">>) =>
              /\ StoredExactly
              /\ last.res = "load_error" => (tasks = <<>> /\ file = JsonFile(<<>>)))
    /\ [][/\ last'.op \in {"filter", "search"} =>
                 /\ tasks' = tasks
                 /\ viewDate' = now
                 /\ Len(last'.io) = 1
                 /\ last'.io = <<"ok">> => StoredExactly'
          /\ (viewDate' # viewDate \/ filtered_indices' # filtered_indices
                 \/ tree' # tree) => last'.io # <<>>]_vars

\* the program has started on a file that is not JSON: nothing has been
\* done yet and the file holds an empty list
C20_Witness ==
    /\ last.op = "init" /\ last.res = "load_error"
    /\ tasks = <<>> /\ file = JsonFile(<<>>)

====
